---- MODULE Spec2Model ----
(***************************************************************************)
(* Vendor ledger backend (src/src/routes/vendorRoutes.js): the vendors and *)
(* transactions tables, the row locks PostgreSQL takes for the handlers'   *)
(* statements, and one request record per in-flight HTTP request.  Every   *)
(* awaited database statement of a handler is one atomic step.  Amounts    *)
(* are whole units (the code's floats restricted to integers), so the      *)
(* Number.EPSILON comparison of the add handler is equality.               *)
(***************************************************************************)
EXTENDS Integers, FiniteSets, Sequences, TLC

\* ------------------------------------------------------------------ bounds
NumClients == 3
NumVendors == 1
MaxTx == 3
MaxAmount == 2
MaxRequests == 4
MaxInFlight == 1
MaxFaults == 1

\* The placeholders and the parameters of update transaction's
\* UPDATE transactions statement.
UpdTxPlaceholders == 5
UpdTxParams == 4

Clients == 1..NumClients
VendorIds == 1..NumVendors
TxIds == 1..MaxTx

\* ------------------------------------------------------- JavaScript values
\* A request field: undefined, a JSON number, a numeric string, or a string
\* that is no number.
Undef == [k |-> "undef", n |-> 0]
Bad == [k |-> "bad", n |-> 0]
Num(n) == [k |-> "num", n |-> n]
Str(n) == [k |-> "str", n |-> n]

\* JavaScript truthiness: undefined and the number 0 are falsy, a non-empty
\* string (also "0") is truthy.
Truthy(v) == v.k \in {"str", "bad"} \/ (v.k = "num" /\ v.n # 0)

NaN == [nan |-> TRUE, n |-> 0]
Number(n) == [nan |-> FALSE, n |-> n]

\* parseFloat / parseInt of a request field (whole units).
ParseFloat(v) == IF v.k \in {"num", "str"} THEN Number(v.n) ELSE NaN

ParseInt(v) == IF v.k \in {"num", "str"} THEN Number(v.n) ELSE NaN

Max(a, b) == IF a >= b THEN a ELSE b

Min(a, b) == IF a <= b THEN a ELSE b

\* The values a request may carry for an amount or a total.
BodyValues == {Undef, Bad, Str(0)} \cup {Num(n) : n \in -1..MaxAmount}

\* The ids a URL may carry: existing and unknown integers, and a non-integer.
UrlVendorIds == {Bad} \cup {Str(n) : n \in 1..(NumVendors + 1)}

UrlTxIds == {Bad} \cup {Str(n) : n \in 1..MaxTx}

\* ------------------------------------------------------------------- rows
NoVendor == [exists |-> FALSE, total |-> 0, pending |-> 0]

NoTx == [exists |-> FALSE, vendor |-> 0, amount |-> 0, status |-> ""]

NoRow == [exists |-> FALSE, total |-> 0, pending |-> 0, status |-> ""]

NoResp == [code |-> 0, status |-> "", over |-> 0, txAmount |-> 0,
           rows |-> [v \in VendorIds |-> NoRow]]

\* A request: the handler (op), its position (pc), its parameters and local
\* variables (vrow: the vendor row its SELECT ... FOR UPDATE returned is
\* bound), its database transaction (txn), its response and the responses it
\* has sent.  wrote and fault are history: whether the request changed a
\* committed row, and whether one of its statements was failed by the
\* database.  rel counts its client.release() calls.
IdleReq == [op |-> "none", pc |-> "idle", vid |-> 0, tid |-> 0, amt |-> 0,
            badId |-> FALSE, totf |-> Undef, paidf |-> Undef,
            vtotal |-> 0, cur |-> 0, total |-> 0, np |-> 0, paid |-> 0,
            st |-> "", old |-> 0, ins |-> 0, vrow |-> FALSE, txn |-> "none",
            wrote |-> FALSE, fault |-> FALSE, rel |-> 0, sent |-> 0,
            resp |-> NoResp]

VARIABLES vendors, transactions, nextVendorId, nextTxId, vendorLock, txLock,
          req, started, dbFaults

vars == <<vendors, transactions, nextVendorId, nextTxId, vendorLock, txLock,
          req, started, dbFaults>>

db == <<vendors, transactions, nextVendorId, nextTxId>>

locks == <<vendorLock, txLock>>

\* --------------------------------------------------------- pure functions
\* GET /: the status of a listed vendor.
ListStatus(pending, total) ==
    IF pending = 0 THEN "Paid"
    ELSE IF pending < total THEN "Partial"
    ELSE "Pending"

\* Add transaction: the pending amount it writes.
AddNewPending(currentPending, amt) ==
    IF currentPending - amt <= 0 THEN 0 ELSE currentPending - amt

\* Add transaction: the status it snapshots and reports.
AddStatus(currentPending, amt, total) ==
    IF currentPending - amt <= 0 THEN "Paid"
    ELSE IF currentPending - amt = total THEN "Pending"
    ELSE "Partial"

\* Add transaction: the overpayment it reports.
Overpayment(currentPending, amt) ==
    IF amt > currentPending THEN amt - currentPending ELSE 0

\* Update transaction: the pending amount it computes.
UpdTxNewPending(currentPending, oldAmount, amt, total) ==
    LET np0 == currentPending + oldAmount - amt
        np1 == IF np0 < 0 THEN 0 ELSE np0
    IN IF np1 > total THEN total ELSE np1

\* Delete transaction: LEAST(GREATEST(pending_amount + $1, 0), total_amount).
RestorePending(pending, txAmount, total) == Min(Max(pending + txAmount, 0), total)

\* Update vendor: total, paid, totalPaid, status and pending_amount.
UvTotal(totalField, vendorTotal) ==
    IF Truthy(totalField) THEN ParseFloat(totalField).n ELSE vendorTotal

UvPaid(paidField) ==
    LET x == ParseFloat(IF paidField.k = "undef" THEN Num(0) ELSE paidField)
    IN IF x.nan \/ x.n = 0 THEN 0 ELSE x.n

UvAlreadyPaid(total, vendorTotal, vendorPending) == total - vendorPending

UvStatus(totalPaid, total) ==
    IF totalPaid = 0 THEN "Pending"
    ELSE IF totalPaid >= total THEN "Paid"
    ELSE "Partial"

UvPending(total, totalPaid) == Max(total - totalPaid, 0)

\* Does a statement's highest placeholder match the parameters it is given?
\* PostgreSQL rejects the statement otherwise.
StatementBinds(placeholders, params) == placeholders = params

\* ------------------------------------------------------------------- Init
InitDb ==
    /\ vendors = [v \in VendorIds |-> NoVendor]
    /\ transactions = [t \in TxIds |-> NoTx]
    /\ nextVendorId = 1
    /\ nextTxId = 1
    /\ vendorLock = [v \in VendorIds |-> 0]
    /\ txLock = [t \in TxIds |-> 0]
    /\ req = [r \in Clients |-> IdleReq]
    /\ started = 0

\* An empty database and a database server that may fail MaxFaults statements.
Init == InitDb /\ dbFaults = 0

\* ---------------------------------------------------------------- helpers
InFlight == {r \in Clients : req[r].pc \notin {"idle", "done"}}

\* A client may send a request: it has none in flight, and the bounds on the
\* requests sent and in flight are not reached.
Free(r) ==
    /\ req[r].pc \in {"idle", "done"}
    /\ started < MaxRequests
    /\ Cardinality(InFlight) < MaxInFlight

\* A request arrives at client r with record q.  The responses already sent
\* are dropped: they are no state of the program.
Arrive(r, q) ==
    /\ req' = [c \in Clients |->
                 IF c = r THEN q
                 ELSE IF req[c].pc = "done" THEN IdleReq ELSE req[c]]
    /\ started' = started + 1

\* The record of a request that arrives now.
NewReq(op) == [IdleReq EXCEPT !.op = op]

Inserters == {r \in Clients : req[r].pc \in {"add_lock", "add_insert",
                                             "uv_select", "uv_update", "uv_insert"}}

CanInsert == nextTxId + Cardinality(Inserters) <= MaxTx

Creators == {r \in Clients : req[r].pc = "cv_insert"}

CanCreate == nextVendorId + Cardinality(Creators) <= NumVendors

VendorExists(v) == v \in VendorIds /\ vendors[v].exists

TxExists(t) == t \in TxIds /\ transactions[t].exists

\* res.status(code).json(...), the handler's last step.
Respond(q, code) ==
    [q EXCEPT !.pc = "done", !.resp.code = code, !.sent = @ + 1]

\* The same through a finally block that releases the pooled client.
RespondRelease(q, code) ==
    [q EXCEPT !.pc = "done", !.resp.code = code, !.sent = @ + 1,
              !.rel = @ + 1]

\* The database fails at most MaxFaults statements: a step that fails one
\* (the request's fault flag rises) counts it.
FaultCount(r) ==
    /\ dbFaults' = dbFaults + (IF req'[r].fault /\ ~req[r].fault THEN 1 ELSE 0)
    /\ dbFaults' <= MaxFaults

\* A statement of a handler without a transaction fails: catch, 500.
Fail500(q) == [Respond(q, 500) EXCEPT !.fault = TRUE]

Fail500Release(q) == [RespondRelease(q, 500) EXCEPT !.fault = TRUE]

\* A statement inside BEGIN..COMMIT fails: control goes to the catch block.
ToCatch(q) == [q EXCEPT !.pc = "catch", !.fault = TRUE]

\* (variant) a not-found answered without the ROLLBACK
NotFoundNoRollback(q) == RespondRelease(q, 404)

\* rowCount === 0 inside BEGIN..COMMIT: ROLLBACK, then 404, then release.
NotFoundRollback(q) == RespondRelease([q EXCEPT !.txn = "rolledback"], 404)

\* (variant) the row is read without FOR UPDATE: nothing waits
RowLockIgnored(lk, x) == TRUE

\* A statement that needs a row's lock (SELECT ... FOR UPDATE, UPDATE, DELETE)
\* waits while another transaction holds it.
RowLockFree(lk, x) == lk[x] = 0

\* (variant) COMMIT and ROLLBACK that leave the row locks held
UnlockNothing(lk, r) == lk

\* COMMIT and ROLLBACK release the row locks of the transaction.
Unlock(lk, r) == [x \in DOMAIN lk |-> IF lk[x] = r THEN 0 ELSE lk[x]]

VendorRow(v, status) ==
    [exists |-> TRUE, total |-> v.total, pending |-> v.pending, status |-> status]

\* ---------------------------------------------------------- create vendor
CreateValid(hasName, hasContact, totalField) ==
    /\ hasName /\ hasContact /\ Truthy(totalField)
    /\ ~ParseFloat(totalField).nan
    /\ ParseFloat(totalField).n >= 0

\* POST /: validation; a valid request goes on to the INSERT.
CreateVendor(r) ==
    /\ Free(r) /\ CanCreate
    /\ \E hasName \in BOOLEAN, hasContact \in BOOLEAN, totalField \in BodyValues :
         LET q == [NewReq("create") EXCEPT !.totf = totalField] IN
         Arrive(r,
                   IF CreateValid(hasName, hasContact, totalField)
                   THEN [q EXCEPT !.pc = "cv_insert",
                                  !.total = ParseFloat(totalField).n,
                                  !.np = ParseFloat(totalField).n,
                                  !.st = "Pending"]
                   ELSE Respond(q, 400))
    /\ UNCHANGED <<db, locks>>
    /\ FaultCount(r)

\* POST /: the upload and the INSERT INTO vendors, then 201.
CvInsert(r) ==
    LET q == req[r] IN
    /\ q.pc = "cv_insert"
    /\ \/ /\ req' = [req EXCEPT ![r] = Fail500(q)]
          /\ UNCHANGED <<vendors, nextVendorId>>
       \/ LET row == [exists |-> TRUE, total |-> q.total, pending |-> q.np] IN
          /\ vendors' = [vendors EXCEPT ![nextVendorId] = row]
          /\ nextVendorId' = nextVendorId + 1
          /\ req' = [req EXCEPT ![r] =
                [Respond(q, 201) EXCEPT !.vid = nextVendorId, !.wrote = TRUE,
                     !.resp.status = q.st,
                     !.resp.rows[nextVendorId] = VendorRow(row, q.st)]]
    /\ UNCHANGED <<transactions, nextTxId, locks, started>>
    /\ FaultCount(r)

\* ------------------------------------------------------------ list vendors
\* The rows GET / returns.
ListRows ==
    [v \in VendorIds |->
       IF vendors[v].exists
       THEN VendorRow(vendors[v], ListStatus(vendors[v].pending, vendors[v].total))
       ELSE NoRow]

\* GET /: every vendor with its derived status.
ListVendors(r) ==
    /\ Free(r)
    /\ LET q == NewReq("list") IN
       \/ Arrive(r, Fail500(q))
       \/ Arrive(r, [Respond(q, 200) EXCEPT !.resp.rows = ListRows])
    /\ UNCHANGED <<db, locks>>
    /\ FaultCount(r)

\* --------------------------------------------------------- add transaction
AmountValid(amountField) ==
    ~ParseFloat(amountField).nan /\ ParseFloat(amountField).n > 0

\* POST /:vendorId/transactions: validation, pool.connect, BEGIN.
AddTxStart(r) ==
    /\ Free(r) /\ CanInsert
    /\ \E idField \in UrlVendorIds, amountField \in BodyValues :
         LET q == NewReq("addTx") IN
         Arrive(r, IF ParseInt(idField).nan \/ ~AmountValid(amountField)
                   THEN Respond(q, 400)
                   ELSE [q EXCEPT !.pc = "add_lock", !.txn = "open",
                                  !.vid = ParseInt(idField).n,
                                  !.amt = ParseFloat(amountField).n])
    /\ UNCHANGED <<db, locks>>
    /\ FaultCount(r)

\* SELECT ... FROM vendors WHERE vendor_id = $1 FOR UPDATE, and the
\* computation of newPending and status from the locked row.
AddLock(r) ==
    LET q == req[r] IN
    /\ q.pc = "add_lock"
    /\ \/ /\ req' = [req EXCEPT ![r] = ToCatch(q)]
          /\ UNCHANGED vendorLock
       \/ /\ ~VendorExists(q.vid)
          /\ req' = [req EXCEPT ![r] = NotFoundRollback(q)]
          /\ UNCHANGED vendorLock
       \/ /\ VendorExists(q.vid)
          /\ RowLockFree(vendorLock, q.vid)
          /\ vendorLock' = [vendorLock EXCEPT ![q.vid] = r]
          /\ LET v == vendors[q.vid] IN
             req' = [req EXCEPT ![r] =
                  [q EXCEPT !.pc = "add_insert", !.vrow = TRUE,
                            !.total = v.total, !.cur = v.pending,
                            !.np = AddNewPending(v.pending, q.amt),
                            !.st = AddStatus(v.pending, q.amt, v.total)]]
    /\ UNCHANGED <<db, txLock, started>>
    /\ FaultCount(r)

\* INSERT INTO transactions ... RETURNING * (uncommitted until COMMIT).
AddInsert(r) ==
    LET q == req[r] IN
    /\ q.pc = "add_insert"
    /\ \/ /\ req' = [req EXCEPT ![r] = ToCatch(q)]
          /\ UNCHANGED nextTxId
       \/ /\ req' = [req EXCEPT ![r] = [q EXCEPT !.pc = "write_vendor",
                                                 !.ins = nextTxId]]
          /\ nextTxId' = nextTxId + 1
    /\ UNCHANGED <<vendors, transactions, nextVendorId, locks, started>>
    /\ FaultCount(r)

\* UPDATE vendors SET pending_amount = $1 WHERE vendor_id = $2, inside the
\* transaction of add transaction or update transaction.
WriteVendor(r) ==
    LET q == req[r] IN
    /\ q.pc = "write_vendor"
    /\ \/ req' = [req EXCEPT ![r] = ToCatch(q)]
       \/ req' = [req EXCEPT ![r] = [q EXCEPT !.pc = "commit"]]
    /\ UNCHANGED <<db, locks, started>>
    /\ FaultCount(r)

\* The rows a committing transaction makes visible.
CommittedVendors(q) == [vendors EXCEPT ![q.vid].pending = q.np]

CommittedTransactions(q) ==
    IF q.op = "addTx"
    THEN [transactions EXCEPT ![q.ins] =
            [exists |-> TRUE, vendor |-> q.vid, amount |-> q.amt, status |-> q.st]]
    ELSE [transactions EXCEPT ![q.tid].amount = q.amt]

\* The response of add transaction (201) or update transaction (200).
CommitResponse(q) ==
    LET row == [exists |-> TRUE, total |-> q.total, pending |-> q.np,
                status |-> q.st] IN
    IF q.op = "addTx"
    THEN [RespondRelease(q, 201) EXCEPT
            !.txn = "committed", !.wrote = TRUE,
            !.resp.status = q.st, !.resp.txAmount = q.amt,
            !.resp.over = Overpayment(q.cur, q.amt),
            !.resp.rows[q.vid] = row]
    ELSE [RespondRelease(q, 200) EXCEPT
            !.txn = "committed", !.wrote = TRUE,
            !.resp.txAmount = q.amt,
            !.resp.rows[q.vid] = row]

\* COMMIT, the response, and client.release().
Commit(r) ==
    LET q == req[r] IN
    /\ q.pc = "commit"
    /\ \/ /\ req' = [req EXCEPT ![r] = ToCatch(q)]
          /\ UNCHANGED <<vendors, transactions, locks>>
       \/ /\ vendors' = CommittedVendors(q)
          /\ transactions' = CommittedTransactions(q)
          /\ vendorLock' = Unlock(vendorLock, r)
          /\ txLock' = Unlock(txLock, r)
          /\ req' = [req EXCEPT ![r] = CommitResponse(q)]
    /\ UNCHANGED <<nextVendorId, nextTxId, started>>
    /\ FaultCount(r)

\* catch: ROLLBACK (its own failure swallowed), 500, client.release().
Catch(r) ==
    LET q == req[r] IN
    /\ q.pc = "catch"
    /\ vendorLock' = Unlock(vendorLock, r)
    /\ txLock' = Unlock(txLock, r)
    /\ req' = [req EXCEPT ![r] =
                 RespondRelease([q EXCEPT !.txn = "rolledback"], 500)]
    /\ UNCHANGED <<db, started>>
    /\ FaultCount(r)

\* ------------------------------------------------------ update transaction
\* PUT /transactions/:transactionId: validation, pool.connect, BEGIN.
UpdTxStart(r) ==
    /\ Free(r)
    /\ \E idField \in UrlTxIds, amountField \in BodyValues :
         LET q == NewReq("updTx") IN
         Arrive(r, IF ParseInt(idField).nan \/ ~AmountValid(amountField)
                   THEN Respond(q, 400)
                   ELSE [q EXCEPT !.pc = "ut_lock_tx", !.txn = "open",
                                  !.tid = ParseInt(idField).n,
                                  !.amt = ParseFloat(amountField).n])
    /\ UNCHANGED <<db, locks>>
    /\ FaultCount(r)

\* SELECT ... FROM transactions WHERE transaction_id = $1 FOR UPDATE.
UtLockTx(r) ==
    LET q == req[r] IN
    /\ q.pc = "ut_lock_tx"
    /\ \/ /\ req' = [req EXCEPT ![r] = ToCatch(q)]
          /\ UNCHANGED txLock
       \/ /\ ~TxExists(q.tid)
          /\ req' = [req EXCEPT ![r] = NotFoundRollback(q)]
          /\ UNCHANGED txLock
       \/ /\ TxExists(q.tid)
          /\ RowLockFree(txLock, q.tid)
          /\ txLock' = [txLock EXCEPT ![q.tid] = r]
          /\ req' = [req EXCEPT ![r] =
                  [q EXCEPT !.pc = "ut_lock_vendor",
                            !.vid = transactions[q.tid].vendor,
                            !.old = transactions[q.tid].amount]]
    /\ UNCHANGED <<db, vendorLock, started>>
    /\ FaultCount(r)

\* SELECT ... FROM vendors WHERE vendor_id = $1 FOR UPDATE, and newPending.
UtLockVendor(r) ==
    LET q == req[r] IN
    /\ q.pc = "ut_lock_vendor"
    /\ \/ /\ req' = [req EXCEPT ![r] = ToCatch(q)]
          /\ UNCHANGED locks
       \/ /\ ~VendorExists(q.vid)
          /\ req' = [req EXCEPT ![r] = NotFoundRollback(q)]
          /\ txLock' = Unlock(txLock, r)
          /\ UNCHANGED vendorLock
       \/ /\ VendorExists(q.vid)
          /\ RowLockFree(vendorLock, q.vid)
          /\ vendorLock' = [vendorLock EXCEPT ![q.vid] = r]
          /\ UNCHANGED txLock
          /\ LET v == vendors[q.vid] IN
             req' = [req EXCEPT ![r] =
                  [q EXCEPT !.pc = "ut_write_tx", !.vrow = TRUE,
                            !.total = v.total, !.cur = v.pending,
                            !.np = UpdTxNewPending(v.pending, q.old, q.amt, v.total)]]
    /\ UNCHANGED <<db, started>>
    /\ FaultCount(r)

\* UPDATE transactions SET amount = $1, ... WHERE transaction_id = $5, sent
\* with four parameters.
UtWriteTx(r) ==
    LET q == req[r] IN
    /\ q.pc = "ut_write_tx"
    /\ \/ req' = [req EXCEPT ![r] = ToCatch(q)]
       \/ req' = [req EXCEPT ![r] =
               IF StatementBinds(UpdTxPlaceholders, UpdTxParams)
               THEN [q EXCEPT !.pc = "write_vendor"]
               ELSE [q EXCEPT !.pc = "catch"]]
    /\ UNCHANGED <<db, locks, started>>
    /\ FaultCount(r)

\* ------------------------------------------------------ delete transaction
\* DELETE /:vendorId/transactions/:transactionId: validation, pool.connect.
DelTxStart(r) ==
    /\ Free(r)
    /\ \E vidField \in UrlVendorIds, tidField \in UrlTxIds :
         LET q == NewReq("delTx") IN
         Arrive(r, IF ParseInt(vidField).nan \/ ParseInt(tidField).nan
                   THEN Respond(q, 400)
                   ELSE [q EXCEPT !.pc = "dt_select",
                                  !.vid = ParseInt(vidField).n,
                                  !.tid = ParseInt(tidField).n])
    /\ UNCHANGED <<db, locks>>
    /\ FaultCount(r)

\* SELECT amount FROM transactions WHERE transaction_id = $1 AND vendor_id = $2
DtSelect(r) ==
    LET q == req[r] IN
    /\ q.pc = "dt_select"
    /\ \/ req' = [req EXCEPT ![r] = Fail500Release(q)]
       \/ /\ ~(TxExists(q.tid) /\ transactions[q.tid].vendor = q.vid)
          /\ req' = [req EXCEPT ![r] = RespondRelease(q, 404)]
       \/ /\ TxExists(q.tid) /\ transactions[q.tid].vendor = q.vid
          /\ req' = [req EXCEPT ![r] = [q EXCEPT !.pc = "dt_delete",
                                           !.amt = transactions[q.tid].amount]]
    /\ UNCHANGED <<db, locks, started>>
    /\ FaultCount(r)

\* DELETE FROM transactions WHERE transaction_id = $1 (its own transaction).
DtDelete(r) ==
    LET q == req[r] IN
    /\ q.pc = "dt_delete"
    /\ \/ /\ req' = [req EXCEPT ![r] = Fail500Release(q)]
          /\ UNCHANGED transactions
       \/ /\ RowLockFree(txLock, q.tid)
          /\ transactions' = [transactions EXCEPT ![q.tid] = NoTx]
          /\ req' = [req EXCEPT ![r] =
                [q EXCEPT !.pc = "dt_restore",
                          !.wrote = @ \/ transactions[q.tid].exists]]
    /\ UNCHANGED <<vendors, nextVendorId, nextTxId, locks, started>>
    /\ FaultCount(r)

\* UPDATE vendors SET pending_amount = LEAST(GREATEST(...)) (its own
\* transaction), then the response.
DtRestore(r) ==
    LET q == req[r] IN
    /\ q.pc = "dt_restore"
    /\ \/ /\ req' = [req EXCEPT ![r] = Fail500Release(q)]
          /\ UNCHANGED vendors
       \/ /\ ~VendorExists(q.vid)
          /\ req' = [req EXCEPT ![r] = RespondRelease(q, 200)]
          /\ UNCHANGED vendors
       \/ /\ VendorExists(q.vid)
          /\ RowLockFree(vendorLock, q.vid)
          /\ vendors' = [vendors EXCEPT ![q.vid].pending =
                 RestorePending(vendors[q.vid].pending, q.amt, vendors[q.vid].total)]
          /\ req' = [req EXCEPT ![r] =
                 [RespondRelease(q, 200) EXCEPT !.wrote = TRUE]]
    /\ UNCHANGED <<transactions, nextVendorId, nextTxId, locks, started>>
    /\ FaultCount(r)

\* ----------------------------------------------------------- update vendor
\* The totals an update may carry: those create vendor would accept, or none.
UvTotals == BodyValues \ {Bad, Num(-1)}

\* PUT /:id: the request; nothing is validated.
UpdVendorStart(r) ==
    /\ Free(r) /\ CanInsert
    /\ \E idField \in UrlVendorIds, totalField \in UvTotals, paidField \in BodyValues :
         Arrive(r, [NewReq("updVendor") EXCEPT !.pc = "uv_select",
                                   !.vid = ParseInt(idField).n,
                                   !.badId = ParseInt(idField).nan,
                                   !.totf = totalField, !.paidf = paidField])
    /\ UNCHANGED <<db, locks>>
    /\ FaultCount(r)

\* What update vendor computes from the row it read.
UvCompute(q, v) ==
    LET total == UvTotal(q.totf, v.total)
        paid == UvPaid(q.paidf)
        totalPaid == UvAlreadyPaid(total, v.total, v.pending) + paid
    IN [q EXCEPT !.pc = "uv_update", !.vtotal = v.total, !.cur = v.pending,
                 !.total = total, !.paid = paid,
                 !.st = UvStatus(totalPaid, total),
                 !.np = UvPending(total, totalPaid)]

\* SELECT * FROM vendors WHERE vendor_id = $1 (no lock), and the computation.
\* An id that is no integer makes the statement fail.
UvSelect(r) ==
    LET q == req[r] IN
    /\ q.pc = "uv_select"
    /\ \/ req' = [req EXCEPT ![r] = Fail500(q)]
       \/ /\ q.badId
          /\ req' = [req EXCEPT ![r] = Respond(q, 500)]
       \/ /\ ~q.badId /\ ~VendorExists(q.vid)
          /\ req' = [req EXCEPT ![r] = Respond(q, 404)]
       \/ /\ ~q.badId /\ VendorExists(q.vid)
          /\ req' = [req EXCEPT ![r] = UvCompute(q, vendors[q.vid])]
    /\ UNCHANGED <<db, locks, started>>
    /\ FaultCount(r)

\* The response of update vendor.
UvResponse(q) ==
    [Respond(q, 200) EXCEPT
        !.resp.status = q.st,
        !.resp.rows[q.vid] = [exists |-> TRUE, total |-> q.total,
                              pending |-> q.np, status |-> q.st]]

\* UPDATE vendors SET ..., total_amount=$5, pending_amount=$6 (its own
\* transaction); the response follows when no payment is to be recorded.
UvUpdate(r) ==
    LET q == req[r] IN
    /\ q.pc = "uv_update"
    /\ \/ /\ req' = [req EXCEPT ![r] = Fail500(q)]
          /\ UNCHANGED vendors
       \/ /\ RowLockFree(vendorLock, q.vid)
          /\ vendors' = [vendors EXCEPT ![q.vid].total = q.total,
                                        ![q.vid].pending = q.np]
          /\ req' = [req EXCEPT ![r] =
                IF q.paid > 0
                THEN [q EXCEPT !.pc = "uv_insert", !.wrote = TRUE]
                ELSE [UvResponse(q) EXCEPT !.wrote = TRUE]]
    /\ UNCHANGED <<transactions, nextVendorId, nextTxId, locks, started>>
    /\ FaultCount(r)

\* INSERT INTO transactions (..., "Payment update", status) for paid > 0,
\* then the response.
UvInsert(r) ==
    LET q == req[r] IN
    /\ q.pc = "uv_insert"
    /\ \/ /\ req' = [req EXCEPT ![r] = Fail500(q)]
          /\ UNCHANGED <<transactions, nextTxId>>
       \/ /\ transactions' = [transactions EXCEPT ![nextTxId] =
                [exists |-> TRUE, vendor |-> q.vid, amount |-> q.paid,
                 status |-> q.st]]
          /\ nextTxId' = nextTxId + 1
          /\ req' = [req EXCEPT ![r] = [UvResponse(q) EXCEPT !.ins = nextTxId]]
    /\ UNCHANGED <<vendors, nextVendorId, locks, started>>
    /\ FaultCount(r)

\* ------------------------------------------------------------ delete vendor
\* What the schema makes of a DELETE FROM vendors for a vendor that has
\* transactions.  The source holds no schema: transactions.vendor_id may be a
\* plain column ("none": the rows stay), a foreign key ("restrict": the
\* statement fails), or a foreign key ON DELETE CASCADE ("cascade").
DeleteEffects == {"none", "restrict", "cascade"}

\* The transactions on record for vendor v.
TxOf(v) == {x \in TxIds : transactions[x].exists /\ transactions[x].vendor = v}

\* DELETE FROM vendors WHERE vendor_id = $1 RETURNING * (its own
\* transaction; it waits for the row's lock), then the response.
DvDelete(r) ==
    LET q == req[r] IN
    /\ q.pc = "dv_delete"
    /\ \/ /\ req' = [req EXCEPT ![r] = Fail500(q)]
          /\ UNCHANGED <<vendors, transactions>>
       \/ /\ ~VendorExists(q.vid)
          /\ req' = [req EXCEPT ![r] = Respond(q, 404)]
          /\ UNCHANGED <<vendors, transactions>>
       \/ /\ VendorExists(q.vid)
          /\ RowLockFree(vendorLock, q.vid)
          /\ \E effect \in DeleteEffects :
                \/ /\ effect = "restrict" /\ TxOf(q.vid) # {}
                   /\ req' = [req EXCEPT ![r] = Respond(q, 500)]
                   /\ UNCHANGED <<vendors, transactions>>
                \/ /\ effect = "restrict" => TxOf(q.vid) = {}
                   /\ effect = "cascade" =>
                         \A x \in TxOf(q.vid) : RowLockFree(txLock, x)
                   /\ vendors' = [vendors EXCEPT ![q.vid] = NoVendor]
                   /\ transactions' =
                         IF effect = "cascade"
                         THEN [x \in TxIds |->
                                 IF x \in TxOf(q.vid) THEN NoTx ELSE transactions[x]]
                         ELSE transactions
                   /\ req' = [req EXCEPT ![r] =
                                [Respond(q, 200) EXCEPT !.wrote = TRUE]]
    /\ UNCHANGED <<nextVendorId, nextTxId, locks, started>>
    /\ FaultCount(r)

\* --------------------------------------------------------- specifications
Next ==
    \E r \in Clients :
       \/ CreateVendor(r) \/ CvInsert(r) \/ ListVendors(r)
       \/ AddTxStart(r) \/ AddLock(r) \/ AddInsert(r)
       \/ WriteVendor(r) \/ Commit(r) \/ Catch(r)
       \/ UpdTxStart(r) \/ UtLockTx(r) \/ UtLockVendor(r) \/ UtWriteTx(r)
       \/ DelTxStart(r) \/ DtSelect(r) \/ DtDelete(r) \/ DtRestore(r)
       \/ UpdVendorStart(r) \/ UvSelect(r) \/ UvUpdate(r) \/ UvInsert(r)

Spec == Init /\ [][Next]_vars

\* ------------------------------------------- concurrent add transactions
\* A vendor as created (pending = total), and every client with a validated
\* add transaction request for it that has sent BEGIN.
InitAddAdd ==
    /\ \E t \in 0..(NumClients * MaxAmount + 1) :
          vendors = [v \in VendorIds |->
                       IF v = 1 THEN [exists |-> TRUE, total |-> t, pending |-> t]
                       ELSE NoVendor]
    /\ transactions = [t \in TxIds |-> NoTx]
    /\ nextVendorId = 2
    /\ nextTxId = 1
    /\ vendorLock = [v \in VendorIds |-> 0]
    /\ txLock = [t \in TxIds |-> 0]
    /\ \E amts \in [Clients -> 1..MaxAmount] :
          req = [r \in Clients |->
                   [NewReq("addTx") EXCEPT !.pc = "add_lock", !.txn = "open",
                                           !.vid = 1, !.amt = amts[r]]]
    /\ started = NumClients
    /\ dbFaults = 0

NextAddAdd ==
    \E r \in Clients :
       AddLock(r) \/ AddInsert(r) \/ WriteVendor(r) \/ Commit(r) \/ Catch(r)

SpecAddAdd == InitAddAdd /\ [][NextAddAdd]_vars

\* ---------------------------------------------------- add, then delete it
\* A vendor with total t and pending p (a payment of t - p on record when
\* p < t), and one validated add transaction request.
InitRoundTrip ==
    /\ \E t \in 0..MaxAmount : \E p \in 0..t :
          /\ vendors = [v \in VendorIds |->
                          IF v = 1 THEN [exists |-> TRUE, total |-> t, pending |-> p]
                          ELSE NoVendor]
          /\ transactions = [x \in TxIds |->
                          IF x = 1 /\ p < t
                          THEN [exists |-> TRUE, vendor |-> 1, amount |-> t - p,
                                status |-> AddStatus(t, t - p, t)]
                          ELSE NoTx]
          /\ nextTxId = IF p < t THEN 2 ELSE 1
    /\ nextVendorId = 2
    /\ vendorLock = [v \in VendorIds |-> 0]
    /\ txLock = [t \in TxIds |-> 0]
    /\ \E a \in 1..MaxAmount :
          req = [r \in Clients |->
                   IF r = 1
                   THEN [NewReq("addTx") EXCEPT !.pc = "add_lock", !.txn = "open",
                                                !.vid = 1, !.amt = a]
                   ELSE IdleReq]
    /\ started = 1
    /\ dbFaults = 0

\* DELETE /:vendorId/transactions/:transactionId for the transaction an add
\* transaction has just recorded: valid ids, pool.connect.
DelTxOfAdded(r) ==
    /\ req[r].pc = "idle"
    /\ \A c \in Clients : req[c].op # "delTx"
    /\ \E c \in Clients :
          /\ req[c].op = "addTx" /\ req[c].resp.code = 201
          /\ req' = [req EXCEPT ![r] =
                [NewReq("delTx") EXCEPT !.pc = "dt_select",
                                        !.vid = req[c].vid, !.tid = req[c].ins]]
    /\ started' = started + 1
    /\ UNCHANGED <<db, locks>>
    /\ FaultCount(r)

NextRoundTrip ==
    \E r \in Clients :
       \/ AddLock(r) \/ AddInsert(r) \/ WriteVendor(r) \/ Commit(r) \/ Catch(r)
       \/ DelTxOfAdded(r) \/ DtSelect(r) \/ DtDelete(r) \/ DtRestore(r)

SpecRoundTrip == InitRoundTrip /\ [][NextRoundTrip]_vars

\* ------------------------------------------- the ledger without its faults
\* An empty database whose server fails no statement; the vendor's total is
\* never edited (no update vendor).
InitLedger == InitDb /\ dbFaults = MaxFaults

NextLedger ==
    \E r \in Clients :
       \/ CreateVendor(r) \/ CvInsert(r)
       \/ AddTxStart(r) \/ AddLock(r) \/ AddInsert(r)
       \/ WriteVendor(r) \/ Commit(r) \/ Catch(r)
       \/ UpdTxStart(r) \/ UtLockTx(r) \/ UtLockVendor(r) \/ UtWriteTx(r)
       \/ DelTxStart(r) \/ DtSelect(r) \/ DtDelete(r) \/ DtRestore(r)

SpecLedger == InitLedger /\ [][NextLedger]_vars

\* ----------------------------------------------- requests already started
\* Validated requests for vendor 1 and the transactions 1..n on its record,
\* each after pool.connect (and BEGIN, where the handler opens a transaction).
AddReqs ==
    {[NewReq("addTx") EXCEPT !.pc = "add_lock", !.txn = "open",
                             !.vid = 1, !.amt = a] : a \in 1..MaxAmount}

UpdTxReqs(n) ==
    {[NewReq("updTx") EXCEPT !.pc = "ut_lock_tx", !.txn = "open",
                             !.tid = t, !.amt = a] :
        t \in 1..n, a \in 1..MaxAmount}

DelTxReqs(n) ==
    {[NewReq("delTx") EXCEPT !.pc = "dt_select", !.vid = 1, !.tid = t] :
        t \in 1..n}

\* The pending amount of a vendor created with total t after add
\* transactions of amts[1], ..., amts[n].
RECURSIVE PendingAfter(_, _, _)
PendingAfter(t, amts, n) ==
    IF n = 0 THEN t ELSE AddNewPending(PendingAfter(t, amts, n - 1), amts[n])

\* Vendor 1 as create vendor and n add transactions leave it, and every
\* client with a started request out of R; the transactions table has room
\* for the rows the requests will insert.
InitBusy(R, n) ==
    /\ \E t \in 0..(n * MaxAmount + 1), amts \in [1..n -> 1..MaxAmount] :
          /\ vendors = [v \in VendorIds |->
                          IF v = 1
                          THEN [exists |-> TRUE, total |-> t,
                                pending |-> PendingAfter(t, amts, n)]
                          ELSE NoVendor]
          /\ transactions = [x \in TxIds |->
                          IF x <= n
                          THEN [exists |-> TRUE, vendor |-> 1, amount |-> amts[x],
                                status |-> AddStatus(PendingAfter(t, amts, x - 1),
                                                     amts[x], t)]
                          ELSE NoTx]
    /\ nextVendorId = 2
    /\ nextTxId = n + 1
    /\ vendorLock = [v \in VendorIds |-> 0]
    /\ txLock = [t \in TxIds |-> 0]
    /\ req \in [Clients -> R]
    /\ Cardinality({r \in Clients : req[r].op \in {"addTx", "updVendor"}})
          <= MaxTx - n
    /\ started = NumClients
    /\ dbFaults = 0

\* ------------------------- concurrent add and update transaction requests
InitLocked == InitBusy(AddReqs \cup UpdTxReqs(1), 1)

NextLocked ==
    \E r \in Clients :
       \/ AddLock(r) \/ AddInsert(r)
       \/ UtLockTx(r) \/ UtLockVendor(r) \/ UtWriteTx(r)
       \/ WriteVendor(r) \/ Commit(r) \/ Catch(r)

SpecLocked == InitLocked /\ [][NextLocked]_vars

\* ------------------- concurrent delete transaction requests, and an add
\* Two payments on the vendor's record; every client deletes one of them,
\* adds a transaction, or sends nothing.
InitDeletes == InitBusy(DelTxReqs(2) \cup AddReqs \cup {IdleReq}, 2)

NextDeletes ==
    \E r \in Clients :
       \/ DtSelect(r) \/ DtDelete(r) \/ DtRestore(r)
       \/ AddLock(r) \/ AddInsert(r) \/ WriteVendor(r) \/ Commit(r) \/ Catch(r)

SpecDeletes == InitDeletes /\ [][NextDeletes]_vars

\* ---------------- update vendor beside add and delete transaction requests
\* PUT /:id requests for vendor 1 that edit no total: none or some payment.
UpdVendorReqs ==
    {[NewReq("updVendor") EXCEPT !.pc = "uv_select", !.vid = 1, !.paidf = pf] :
        pf \in {Undef} \cup {Num(a) : a \in 1..MaxAmount}}

\* One payment on the vendor's record; every client updates the vendor, adds
\* a transaction, deletes the recorded one, or sends nothing.
InitUpdates ==
    InitBusy(UpdVendorReqs \cup AddReqs \cup DelTxReqs(1) \cup {IdleReq}, 1)

NextUpdates ==
    \E r \in Clients :
       \/ UvSelect(r) \/ UvUpdate(r) \/ UvInsert(r)
       \/ DtSelect(r) \/ DtDelete(r) \/ DtRestore(r)
       \/ AddLock(r) \/ AddInsert(r) \/ WriteVendor(r) \/ Commit(r) \/ Catch(r)

SpecUpdates == InitUpdates /\ [][NextUpdates]_vars

\* ------------ add, update and delete transaction requests, fairly scheduled
\* One payment on the vendor's record; every client adds a transaction, or
\* updates or deletes the recorded one.
InitFair == InitBusy(AddReqs \cup UpdTxReqs(1) \cup DelTxReqs(1), 1)

\* The next step of request r's handler.
StepFair(r) ==
    \/ AddLock(r) \/ AddInsert(r)
    \/ UtLockTx(r) \/ UtLockVendor(r) \/ UtWriteTx(r)
    \/ WriteVendor(r) \/ Commit(r) \/ Catch(r)
    \/ DtSelect(r) \/ DtDelete(r) \/ DtRestore(r)

NextFair == \E r \in Clients : StepFair(r)

\* The event loop resumes a handler whose awaited statement can complete, and
\* PostgreSQL completes a statement that waits for no lock.
SpecFair == InitFair /\ [][NextFair]_vars /\ \A r \in Clients : WF_vars(StepFair(r))

\* -------------------------------- delete vendor beside an add transaction
\* DELETE /:id requests for vendor 1 or an unknown vendor, before their
\* statement.
DelVendorReqs ==
    {[NewReq("delVendor") EXCEPT !.pc = "dv_delete", !.vid = v] :
        v \in 1..(NumVendors + 1)}

\* One payment on the vendor's record; every client deletes a vendor, adds a
\* transaction, or sends nothing.
InitDelVendor == InitBusy(DelVendorReqs \cup AddReqs \cup {IdleReq}, 1)

NextDelVendor ==
    \E r \in Clients :
       \/ DvDelete(r)
       \/ AddLock(r) \/ AddInsert(r) \/ WriteVendor(r) \/ Commit(r) \/ Catch(r)

SpecDelVendor == InitDelVendor /\ [][NextDelVendor]_vars

\* ------------------------------------------------------------------ claims
Clamp(x, lo, hi) == Min(Max(x, lo), hi)

\* The status the specification derives from (pending_amount, total_amount).
DeriveStatus(pending, total) ==
    IF pending = 0 THEN "Paid"
    ELSE IF pending = total THEN "Pending"
    ELSE "Partial"

RECURSIVE SumOver(_, _)
SumOver(f, S) ==
    IF S = {} THEN 0
    ELSE LET x == CHOOSE y \in S : TRUE IN f[x] + SumOver(f, S \ {x})

\* The sum of the amounts of vendor v's recorded transactions.
LedgerSum(v) ==
    SumOver([t \in TxIds |-> transactions[t].amount],
            {t \in TxIds : transactions[t].exists /\ transactions[t].vendor = v})

Done(r) == req[r].pc = "done"

\* C1: in every reachable state every vendor has
\* 0 <= pending_amount <= total_amount.
C1_PendingWithinTotal ==
    \A v \in VendorIds :
       vendors[v].exists =>
          0 <= vendors[v].pending /\ vendors[v].pending <= vendors[v].total

\* C2: concurrent add transactions on one vendor serialize: in every state
\* the vendor's pending amount is its initial balance less the amounts of
\* all committed adds (floored at 0), never less only some of them, and
\* every committed add has its own transaction row on record.
C2_AddsSerialize ==
    LET committed == {r \in Clients : req[r].txn = "committed"} IN
    /\ vendors[1].pending =
          Max(vendors[1].total - SumOver([r \in Clients |-> req[r].amt], committed), 0)
    /\ \A r \in committed :
          /\ req[r].resp.code = 201
          /\ req[r].ins \in TxIds
          /\ transactions[req[r].ins] =
                [exists |-> TRUE, vendor |-> 1, amount |-> req[r].amt,
                 status |-> req[r].st]
          /\ \A c \in committed : c # r => req[c].ins # req[r].ins

\* C2's case: all concurrent adds have committed and a balance is left, so a
\* lost update would show.
C2_Witness ==
    /\ \A r \in Clients : req[r].resp.code = 201
    /\ vendors[1].pending > 0
    /\ \E r \in Clients : req[r].cur < vendors[1].total

\* C3: an add transaction of amount a on a vendor with pending p and total t
\* commits pending = clamp(p - a, 0, t), records one row of amount a and
\* reports overpayment = max(a - p, 0).
C3_AddClamps ==
    \A r \in Clients :
       (Done(r) /\ req[r].op = "addTx" /\ req[r].resp.code = 201) =>
          LET q == req[r] IN
          /\ vendors[q.vid].pending = Clamp(q.cur - q.amt, 0, q.total)
          /\ q.resp.rows[q.vid].pending = Clamp(q.cur - q.amt, 0, q.total)
          /\ transactions[q.ins].exists /\ transactions[q.ins].amount = q.amt
          /\ q.resp.over = Max(q.amt - q.cur, 0)

\* C4: adding a transaction and then deleting that same transaction, with
\* nothing in between, returns pending_amount to its value before the add.
C4_RoundTrip ==
    \A c \in Clients, d \in Clients :
       ( /\ req[c].op = "addTx" /\ req[c].resp.code = 201
         /\ req[d].op = "delTx" /\ req[d].resp.code = 200
         /\ req[d].tid = req[c].ins )
       => vendors[req[c].vid].pending = req[c].cur

\* C5: an update transaction with a valid amount on an existing transaction
\* of an existing vendor, no statement failed by the database, ends with
\* 200, the transaction's amount a_new and pending =
\* clamp(p + a_old - a_new, 0, t).
C5_UpdateTxSucceeds ==
    \A r \in Clients :
       ( /\ Done(r) /\ req[r].op = "updTx" /\ ~req[r].fault
         /\ req[r].resp.code \notin {400, 404} )
       => LET q == req[r] IN
          /\ q.resp.code = 200
          /\ transactions[q.tid].amount = q.amt
          /\ vendors[q.vid].pending = Clamp(q.cur + q.old - q.amt, 0, q.total)

\* C6: with no request in flight, every vendor's pending_amount is
\* max(total_amount - sum of its recorded transactions, 0).
C6_PendingMatchesLedger ==
    InFlight = {} =>
       \A v \in VendorIds :
          vendors[v].exists =>
             vendors[v].pending = Max(vendors[v].total - LedgerSum(v), 0)

\* C7: every status reported (create vendor, list vendors, add transaction,
\* update vendor) or stored with a transaction is DeriveStatus of the
\* vendor's pending_amount and total_amount after the operation.
C7_StatusIsDerived ==
    \A r \in Clients :
       ( /\ Done(r) /\ req[r].resp.code \in {200, 201}
         /\ req[r].op \in {"create", "list", "addTx", "updVendor"} )
       => LET q == req[r] IN
          /\ \A v \in VendorIds :
                q.resp.rows[v].exists =>
                   q.resp.rows[v].status =
                      DeriveStatus(q.resp.rows[v].pending, q.resp.rows[v].total)
          /\ (q.op \in {"addTx", "updVendor"} /\ q.ins # 0) =>
                transactions[q.ins].status =
                   DeriveStatus(vendors[q.vid].pending, vendors[q.vid].total)

\* C8: a mutation one of whose statements the database fails ends with 500,
\* and a mutation that ends with 500 has changed neither table.
C8_FailureChangesNothing ==
    \A r \in Clients :
       (Done(r) /\ req[r].op \in {"addTx", "updTx", "delTx", "updVendor"}) =>
          /\ req[r].fault => req[r].resp.code = 500
          /\ req[r].resp.code = 500 => ~req[r].wrote

\* C9: a request answered with a validation error (400) or not-found (404)
\* has changed neither table, and its database transaction, if it opened
\* one, is rolled back and holds no row lock when the answer is sent.
C9_RejectedChangesNothing ==
    \A r \in Clients :
       (Done(r) /\ req[r].resp.code \in {400, 404}) =>
          /\ ~req[r].wrote
          /\ req[r].txn \in {"none", "rolledback"}
          /\ req[r].resp.code = 404 /\ req[r].op \in {"addTx", "updTx"}
                => req[r].txn = "rolledback"
          /\ \A v \in VendorIds : vendorLock[v] # r
          /\ \A t \in TxIds : txLock[t] # r

\* C9's case: a not-found inside an open database transaction (an add
\* transaction for an unknown vendor), answered 404, with a vendor on record.
C9_Witness ==
    \E r \in Clients :
       /\ Done(r) /\ req[r].op = "addTx" /\ req[r].resp.code = 404
       /\ req[r].txn = "rolledback"
       /\ \E v \in VendorIds : vendors[v].exists

\* C10: update vendor writes pending = max(t_new - ((t_old - p) + n), 0),
\* alreadyPaid taken from the total before the update, and records one
\* synthetic transaction of amount n exactly when n > 0.
C10_UpdateVendorFormula ==
    \A r \in Clients :
       (Done(r) /\ req[r].op = "updVendor" /\ req[r].resp.code = 200) =>
          LET q == req[r] IN
          /\ vendors[q.vid].total = q.total
          /\ vendors[q.vid].pending =
                Max(q.total - ((q.vtotal - q.cur) + q.paid), 0)
          /\ (q.paid > 0) <=> (q.ins # 0)
          /\ q.ins # 0 => transactions[q.ins].amount = q.paid

\* Request r is between its SELECT ... FROM vendors ... FOR UPDATE on vendor v
\* and its COMMIT or ROLLBACK.
InSection(r, v) ==
    /\ req[r].op \in {"addTx", "updTx"}
    /\ req[r].vid = v /\ req[r].vrow /\ req[r].txn = "open"

\* C11: at no time are two add transaction or update transaction requests
\* for the same vendor both between their locking read of the vendor row and
\* their COMMIT or ROLLBACK; and while one is, the committed pending amount
\* is still the one it read (nobody else has written in between).
C11_MutualExclusion ==
    \A v \in VendorIds :
       \A r \in Clients :
          InSection(r, v) =>
             /\ \A c \in Clients : InSection(c, v) => c = r
             /\ vendors[v].pending = req[r].cur

\* C11's case: after one request has committed, a second is between its
\* locking read and its COMMIT while a third waits at its locking read of
\* the same vendor row.
C11_Witness ==
    \E r \in Clients, c \in Clients, d \in Clients :
       /\ req[d].txn = "committed"
       /\ InSection(r, 1) /\ req[r].pc = "commit"
       /\ \/ req[c].pc = "add_lock" /\ req[c].vid = 1
          \/ req[c].pc = "ut_lock_vendor" /\ req[c].vid = 1

\* The delete transaction and add transaction requests that were answered
\* with success.
Deleted == {r \in Clients : req[r].op = "delTx" /\ req[r].resp.code = 200}

Added == {r \in Clients : req[r].op = "addTx" /\ req[r].resp.code = 201}

\* All requests of the run are answered, all with success.
AllSucceeded ==
    \A r \in Clients : req[r].op = "none" \/ r \in Deleted \/ r \in Added

\* The amount transaction x had on the vendor's record at the start: the
\* amount it still has, or the amount a delete of it looked up.
AmountAtStart(x) ==
    IF transactions[x].exists THEN transactions[x].amount
    ELSE LET d == CHOOSE r \in Deleted : req[r].tid = x IN req[d].amt

\* The pending amount of vendor 1 when the requests started: its total less
\* the payments 1..n then on record, floored at 0.
PendingAtStart(n) ==
    Max(vendors[1].total - SumOver([x \in 1..n |-> AmountAtStart(x)], 1..n), 0)

\* The pending amounts that running the requests in S one after the other,
\* in any order, can leave, starting from pending p with total t.
RECURSIVE SerialOutcomes(_, _, _)
SerialOutcomes(p, t, S) ==
    IF S = {} THEN {p}
    ELSE UNION {SerialOutcomes(IF req[r].op = "delTx" THEN Clamp(p + req[r].amt, 0, t)
                               ELSE Max(p - req[r].amt, 0),
                               t, S \ {r}) : r \in S}

\* C12: when concurrent delete transaction requests for distinct
\* transactions of one vendor, interleaved in any way with each other and
\* with a concurrent add transaction, have all been answered with success,
\* the transactions are gone and the vendor's pending amount is one that
\* running the same requests one after the other leaves: no restore is lost.
C12_DeletesCommute ==
    ( /\ AllSucceeded
      /\ \A c \in Deleted, d \in Deleted : req[c].tid = req[d].tid => c = d )
    => /\ \A d \in Deleted : ~transactions[req[d].tid].exists
       /\ vendors[1].pending \in
             SerialOutcomes(PendingAtStart(2), vendors[1].total, Deleted \cup Added)

\* C12's case: two deletes of distinct transactions and an add have all
\* succeeded, the add having read the balance between the two restores, and
\* the final balance is below the total (no cap hides a lost restore).
C12_Witness ==
    \E c \in Deleted, d \in Deleted, a \in Added :
       /\ req[c].tid # req[d].tid
       /\ req[a].cur = PendingAtStart(2) + req[c].amt
       /\ req[a].cur < vendors[1].total
       /\ vendors[1].pending < vendors[1].total

\* One successful delete per deleted transaction.
FirstDeletes ==
    {d \in Deleted : \A c \in Deleted : req[c].tid = req[d].tid => d <= c}

\* C14: when concurrent delete transaction requests, two of which may name
\* the same transaction, have all been answered with success, the vendor's
\* pending amount is what deleting each deleted transaction once leaves: a
\* transaction's amount is restored once, not once per request.
C14_RestoredOnce ==
    AllSucceeded =>
       vendors[1].pending \in
          SerialOutcomes(PendingAtStart(2), vendors[1].total, FirstDeletes \cup Added)

\* The pending amount left by delete transactions of all the transactions in
\* S, one after the other, from pending p with total t.
RECURSIVE RestoreAll(_, _, _)
RestoreAll(p, t, S) ==
    IF S = {} THEN p
    ELSE LET x == CHOOSE y \in S : TRUE IN
         RestoreAll(RestorePending(p, transactions[x].amount, t), t, S \ {x})

\* C13: from every state the program reaches (no request in flight),
\* deleting all of a vendor's recorded transactions brings its pending
\* amount back to its total, the Pending state: no vendor state is terminal.
C13_DeletesLeadToPending ==
    InFlight = {} =>
       \A v \in VendorIds :
          vendors[v].exists =>
             RestoreAll(vendors[v].pending, vendors[v].total,
                        {x \in TxIds : transactions[x].exists
                                        /\ transactions[x].vendor = v})
                = vendors[v].total

\* The update vendor requests that were answered with success.
Updated == {r \in Clients : req[r].op = "updVendor" /\ req[r].resp.code = 200}

\* The pending amounts that running the requests in S one after the other,
\* in any order, can leave, update vendor (no total edited) among them:
\* alone, it lowers the pending amount by its payment, floored at 0.
RECURSIVE SerialWithUpdates(_, _, _)
SerialWithUpdates(p, t, S) ==
    IF S = {} THEN {p}
    ELSE UNION {SerialWithUpdates(
                   IF req[r].op = "delTx" THEN Clamp(p + req[r].amt, 0, t)
                   ELSE IF req[r].op = "addTx" THEN Max(p - req[r].amt, 0)
                   ELSE UvPending(t, UvAlreadyPaid(t, t, p) + UvPaid(req[r].paidf)),
                   t, S \ {r}) : r \in S}

\* C15: when one update vendor request and concurrent add transaction and
\* delete transaction requests on the same vendor have all been answered
\* with success, the vendor's pending amount is one that running the same
\* requests one after the other leaves: no payment and no restore is lost.
C15_UpdateVendorSerializes ==
    ( /\ \A r \in Clients :
            req[r].op = "none" \/ r \in Deleted \/ r \in Added \/ r \in Updated
      /\ Cardinality(Updated) = 1
      /\ Cardinality(Deleted) <= 1 )
    => vendors[1].pending \in
          SerialWithUpdates(PendingAtStart(1), vendors[1].total,
                            Deleted \cup Added \cup Updated)

\* Request r has ended: answered once, its pooled client released once, its
\* database transaction (add and update transaction open one) committed or
\* rolled back, and no row lock left in its name.
Ended(r) ==
    /\ Done(r) /\ req[r].sent = 1 /\ req[r].rel = 1
    /\ req[r].op \in {"addTx", "updTx"} => req[r].txn \in {"committed", "rolledback"}
    /\ \A v \in VendorIds : vendorLock[v] # r
    /\ \A t \in TxIds : txLock[t] # r

C17_TransactionsOwned ==
    \A x \in TxIds :
       transactions[x].exists => VendorExists(transactions[x].vendor)
====
